---- MODULE Spec2Model ----
(***************************************************************************)
(* TTSServerManager (tts-controller/app/server_manager.py): the plugin     *)
(* registry, the cached status of every plugin, and the container runtime  *)
(* it drives.  Every runtime call of start_plugin, stop_plugin and         *)
(* get_plugin_status is one step, so that callers running in different     *)
(* threads interleave between calls exactly as the code allows (the class  *)
(* holds no lock).                                                         *)
(***************************************************************************)
EXTENDS Naturals, FiniteSets, Sequences, TLC

VARIABLES
    tree,        \* the plugin directory: entry name -> what it is
    scan,        \* position of scan_plugins
    visited,     \* entries scan_plugins has been through
    plugins,     \* self.plugins: registry key -> PluginInfo
    containers,  \* the runtime's units: unit name -> [state, id]
    network,     \* TRUE iff the runtime has a network "tts-network"
    nextId,      \* id the runtime gives to the next unit it creates
    pc,          \* thread -> position in the operation it runs
    op,          \* thread -> operation it runs / ran last
    arg,         \* thread -> plugin name passed to that operation
    handle,      \* thread -> id of the container object it holds (0: none)
    calls,       \* thread -> runtime calls issued by the operation so far
    err,         \* thread -> why the operation's runtime call failed
    absorbed,    \* thread -> TRUE iff stop_plugin took a NotFound as "gone"
    conc,        \* thread -> threads in flight when its operation started
    ret,         \* thread -> what the operation returned or raised
    seen,        \* thread -> unit status its status lookup found
    basis,       \* thread -> `last` of the plugin when status looked it up
    last,        \* registry key -> last event on the plugin's unit
    left,        \* number of operations the callers may still start
    result       \* thread -> the dict get_all_plugins has built so far

vars == <<tree, scan, visited, plugins, containers, network, nextId, pc, op, arg,
          handle, calls, err, absorbed, conc, ret, seen, basis, last,
          left, result>>

(***************************************************************************)
(* Bounds of the model.                                                    *)
(***************************************************************************)
\* Operations started in a run with one caller, and with two.
MaxOps == 3
MaxConcOps == 2

Threads == {"t1", "t2"}

\* An entry of the plugin directory: a subdirectory or a plain file; its
\* config.yaml ("none": there is none, "bad": it cannot be loaded as a
\* mapping, "ok": a mapping) with the host ports that mapping binds; and
\* whether it holds a docker-compose.yml.
Entry(d, c, m, p) == [dir |-> d, config |-> c, compose |-> m, ports |-> p]

\* The plugin directory the operations below work on.
PluginTree == [d \in {"bark", "bark-gpu", "broken"} |->
                 IF d = "broken" THEN Entry(TRUE, "none", FALSE, {})
                 ELSE Entry(TRUE, "ok", FALSE, {8000})]

\* The same, where the two manifests ask for the same host port and where
\* they ask for different ones.
PluginTrees == {[PluginTree EXCEPT !["bark-gpu"].ports = p] :
                  p \in {{8000}, {8001}}}

\* What an entry of a plugin directory may be: a plain file, or a
\* subdirectory with or without either manifest.
Entries ==
    {Entry(FALSE, "none", FALSE, {})} \cup
    {Entry(TRUE, c, m, IF c = "ok" THEN {8000} ELSE {}) :
       c \in {"none", "bad", "ok"}, m \in BOOLEAN}

\* The plugin directories a scan is run on: any of the entries under any
\* of the names.
ScanTrees == UNION {[S -> Entries] : S \in SUBSET DOMAIN PluginTree}

\* Names a caller may pass: every subdirectory and one that does not exist.
Names == DOMAIN PluginTree \cup {"nonexistent"}

(***************************************************************************)
(* Registry.                                                               *)
(***************************************************************************)
\* plugin_dir.name.replace("-gpu", "") for the directory names of the tree
StripGpu(d) == IF d = "bark-gpu" THEN "bark" ELSE d

\* As PluginInfo, but the unit is named after the plugin instead of
\* the directory.
PluginInfo_unit_by_name(d, config) ==
    [name           |-> StripGpu(d),
     container_name |-> "tts-" \o StripGpu(d),
     status         |-> "stopped",
     ports          |-> config.ports]

PluginInfo(d, config) ==
    [name           |-> StripGpu(d),
     container_name |-> "tts-" \o d,
     status         |-> "stopped",
     ports          |-> config.ports]

\* scan_plugins registers entry e: a directory whose config.yaml loads.
Registers(e) == e.dir /\ e.config = "ok"

\* As scan_plugins, but an entry is written under the plugin's name
\* instead of the directory's.
scan_plugins_by_name(tr) ==
    [d \in {StripGpu(e) : e \in {f \in DOMAIN tr : Registers(tr[f])}} |->
       PluginInfo(d, tr[d])]

\* self.plugins after scan_plugins went through all of directory tr.
scan_plugins(tr) ==
    [d \in {e \in DOMAIN tr : Registers(tr[e])} |-> PluginInfo(d, tr[d])]

\* Names of the units the registered plugins run as.
Units == {scan_plugins(PluginTree)[d].container_name :
            d \in DOMAIN scan_plugins(PluginTree)}

Absent == [state |-> "absent", id |-> 0]

UnitOf(n) == plugins[n].container_name

\* The host ports the unit of plugin n has bound: the runtime binds them
\* when it starts the unit and frees them when the unit stops.
Bound(n) == IF containers[UnitOf(n)].state = "running"
            THEN plugins[n].ports ELSE {}

\* No running unit of another plugin has bound a host port n asks for.
PortsFree(n) ==
    \A m \in DOMAIN plugins \ {n} : Bound(m) \cap plugins[n].ports = {}

SetStatus(n, s) == [plugins EXCEPT ![n].status = s]

(***************************************************************************)
(* What an operation hands back to its caller.                             *)
(***************************************************************************)
NoResult ==
    [kind |-> "none", status |-> "none", server_type |-> "none",
     detail |-> "absent"]
Returned(s, n) ==
    [kind |-> "return", status |-> s, server_type |-> n,
     detail |-> "absent"]
ValueError ==
    [kind |-> "ValueError", status |-> "none", server_type |-> "none",
     detail |-> "absent"]
RuntimeError ==
    [kind |-> "RuntimeError", status |-> "none", server_type |-> "none",
     detail |-> "absent"]

\* What start_plugin, stop_plugin and get_plugin_status return, called on
\* their own: "True", "False", "None", or a status.
Value(v) ==
    [kind |-> "value", status |-> v, server_type |-> "none",
     detail |-> "absent"]

\* What health_check of the forward service returns: {"status": s}, with
\* a "detail" d unless d is "absent".
Health(s, d) == [kind |-> "return", status |-> s, server_type |-> "none",
                 detail |-> d]

Mutating == {"load", "unload", "restart", "start", "stop"}

\* result = {}
NoEntries == [n \in {} |-> "none"]

\* result[name] = {"status": status, ...}: the other fields of the entry
\* are the descriptor's, which the registry holds under the same key.
PutEntry(r, n, s) == [m \in DOMAIN r \cup {n} |-> IF m = n THEN s ELSE r[m]]

\* Threads that are inside an operation.
InFlight == {t \in Threads : pc[t] \notin {"idle", "off"}}

\* The callers before their first operation.
Callers(active, budget) ==
    /\ pc = [t \in Threads |-> IF t \in active THEN "idle" ELSE "off"]
    /\ op = [t \in Threads |-> "none"]
    /\ arg = [t \in Threads |-> "nonexistent"]
    /\ handle = [t \in Threads |-> 0]
    /\ calls = [t \in Threads |-> {}]
    /\ err = [t \in Threads |-> "none"]
    /\ absorbed = [t \in Threads |-> FALSE]
    /\ conc = [t \in Threads |-> {}]
    /\ ret = [t \in Threads |-> NoResult]
    /\ seen = [t \in Threads |-> "none"]
    /\ basis = [t \in Threads |-> "none"]
    /\ left = budget
    /\ result = [t \in Threads |-> NoEntries]

\* The manager after __init__, which scans the plugin directory: units
\* of its plugins may be running from an earlier run of the manager.
InitWith(active, budget) ==
    /\ tree \in PluginTrees
    /\ scan = "returned"
    /\ visited = DOMAIN tree
    /\ plugins = scan_plugins(tree)
    /\ containers \in [Units -> {Absent, [state |-> "running", id |-> 1]}]
    /\ \A n \in DOMAIN plugins : Bound(n) # {} => PortsFree(n)
    /\ network \in BOOLEAN
    /\ nextId = 2
    /\ last = [n \in DOMAIN plugins |-> "none"]
    /\ Callers(active, budget)

\* Callers in two threads.
Init == InitWith(Threads, MaxConcOps)

\* The manager in __init__, about to scan one of the plugin directories;
\* nothing calls it yet.
InitScan ==
    /\ tree \in ScanTrees
    /\ scan = "start"
    /\ visited = {}
    /\ plugins = [n \in {} |-> PluginInfo(n, Entry(TRUE, "ok", FALSE, {}))]
    /\ containers = [u \in Units |-> Absent]
    /\ network = FALSE
    /\ nextId = 2
    /\ last = [n \in {} |-> "none"]
    /\ Callers({}, 0)

\* One caller: operations run one at a time.
InitSeq == InitWith({"t1"}, MaxOps)

(***************************************************************************)
(* Steps shared by the operations.                                         *)
(***************************************************************************)
\* A caller starts operation o on name n.  `last` and `conc` keep what the
\* properties below need to know of the past: a load, unload or restart
\* of a registered plugin marks it "busy" until it returns.
Enter(t, o, n) ==
    /\ pc[t] = "idle"
    /\ scan \in {"returned", "unlisted"}
    /\ left > 0
    /\ left' = left - 1
    /\ op' = [op EXCEPT ![t] = o]
    /\ arg' = [arg EXCEPT ![t] = n]
    /\ calls' = [calls EXCEPT ![t] = {}]
    /\ err' = [err EXCEPT ![t] = "none"]
    /\ absorbed' = [absorbed EXCEPT ![t] = FALSE]
    /\ handle' = [handle EXCEPT ![t] = 0]
    /\ seen' = [seen EXCEPT ![t] = "none"]
    /\ basis' = [basis EXCEPT ![t] = IF n \in DOMAIN plugins
                                     THEN last[n] ELSE "none"]
    /\ conc' = [u \in Threads |->
                  IF u = t THEN InFlight
                  ELSE IF pc[u] = "idle" THEN conc[u] \ {t} ELSE conc[u]]
    /\ last' = IF n \in DOMAIN plugins /\ o \in Mutating
               THEN [last EXCEPT ![n] = "busy"]
               ELSE last
    /\ result' = [result EXCEPT ![t] = NoEntries]
    /\ UNCHANGED <<tree, scan, visited>>

\* The operation of t hands r back to its caller; e is the event this is
\* for the plugin, kept unless someone else touched the unit meanwhile.
Finish(t, r, e) ==
    /\ pc' = [pc EXCEPT ![t] = "idle"]
    /\ ret' = [ret EXCEPT ![t] = r]
    /\ last' = IF op[t] \in Mutating /\ last[arg[t]] = "busy"
               THEN [last EXCEPT ![arg[t]] = e]
               ELSE last

\* The operation of t goes on at position p.
Goto(t, p) ==
    /\ pc' = [pc EXCEPT ![t] = p]
    /\ UNCHANGED <<ret, last>>

\* t issues runtime call c.
Call(t, c) == calls' = [calls EXCEPT ![t] = @ \cup {c}]

\* The container object t holds still names a unit of the runtime.
Held(t) ==
    /\ containers[UnitOf(arg[t])].state # "absent"
    /\ containers[UnitOf(arg[t])].id = handle[t]

(***************************************************************************)
(* Frames: what a step of thread t leaves alone.  In every runtime call,   *)
(* `answered` is FALSE when the call raises an API error (the runtime      *)
(* cannot be reached, breaks off, or gives no answer before the client's   *)
(* timeout) and the runtime's state is left as it is.                      *)
(***************************************************************************)
\* Never changed once an operation is under way; no operation touches the
\* plugin directory or the scan of it.
started == <<op, conc, left, tree, scan, visited>>

\* The same, with the name the operation is on and the dict of
\* get_all_plugins, which only its loop changes.
entered == <<arg, result, started>>

\* The runtime's state.
runtime == <<containers, network, nextId>>

\* The callers' state.
callers == <<pc, op, arg, handle, calls, err, absorbed, conc, ret, seen,
             basis, left, result>>

(***************************************************************************)
(* scan_plugins, one entry of the plugin directory at a time, in any       *)
(* order.                                                                  *)
(***************************************************************************)
\* A caller that is in no other operation calls scan_plugins again, on
\* the directory as it is.
scan_plugins_again ==
    /\ scan \in {"returned", "unlisted"}
    /\ InFlight = {}
    /\ left > 0
    /\ left' = left - 1
    /\ scan' = "start"
    /\ visited' = {}
    /\ UNCHANGED <<tree, plugins, last, runtime, pc, op, arg, handle, calls,
                   err, absorbed, conc, ret, seen, basis, result>>

\* for plugin_dir in plugins_dir.iterdir(): a directory that cannot be
\* listed raises into the outer except, which logs it and ends the scan.
scan_plugins_iterdir ==
    /\ scan = "start"
    /\ \E listed \in BOOLEAN :
          scan' = IF listed THEN "iterating" ELSE "unlisted"
    /\ UNCHANGED <<tree, visited, plugins, last, runtime, callers>>

\* As scan_plugins_visit, but a config.yaml that cannot be loaded ends the
\* scan: its exception is caught by the outer except only.
scan_plugins_visit_abort(d) ==
    /\ scan = "iterating"
    /\ d \in DOMAIN tree \ visited
    /\ visited' = visited \cup {d}
    /\ scan' = IF tree[d].dir /\ tree[d].config = "bad"
               THEN "returned" ELSE scan
    /\ plugins' = IF tree[d].dir /\ tree[d].config = "ok"
                  THEN [n \in DOMAIN plugins \cup {d} |->
                          IF n = d THEN PluginInfo(d, tree[d]) ELSE plugins[n]]
                  ELSE plugins
    /\ last' = [n \in DOMAIN plugins' |->
                  IF n \in DOMAIN last THEN last[n] ELSE "none"]
    /\ UNCHANGED <<tree, runtime, callers>>

\* One turn of the loop, for entry d: a plain file is passed over, and so
\* is a directory without a config.yaml (warning) and one whose
\* config.yaml cannot be loaded as a mapping (the inner except logs the
\* error); any other is written to self.plugins under the entry's name.
scan_plugins_visit(d) ==
    /\ scan = "iterating"
    /\ d \in DOMAIN tree \ visited
    /\ visited' = visited \cup {d}
    /\ plugins' = IF ~tree[d].dir THEN plugins
                  ELSE IF tree[d].config = "none" THEN plugins
                  ELSE IF tree[d].config = "bad" THEN plugins
                  ELSE [n \in DOMAIN plugins \cup {d} |->
                          IF n = d THEN PluginInfo(d, tree[d]) ELSE plugins[n]]
    /\ last' = [n \in DOMAIN plugins' |->
                  IF n \in DOMAIN last THEN last[n] ELSE "none"]
    /\ UNCHANGED <<tree, scan, runtime, callers>>

\* The loop is through: scan_plugins returns.
scan_plugins_return ==
    /\ scan = "iterating"
    /\ visited = DOMAIN tree
    /\ scan' = "returned"
    /\ UNCHANGED <<tree, visited, plugins, last, runtime, callers>>

\* The name check every public operation starts with: an unknown name
\* raises ValueError at once, a registered one goes on at position p.
CheckName(t, n, p) ==
    /\ IF n \notin DOMAIN plugins
       THEN /\ pc' = [pc EXCEPT ![t] = "idle"]
            /\ ret' = [ret EXCEPT ![t] = ValueError]
       ELSE /\ pc' = [pc EXCEPT ![t] = p]
            /\ ret' = [ret EXCEPT ![t] = NoResult]
    /\ UNCHANGED <<plugins, runtime>>

\* The name check of start_plugin, stop_plugin and get_plugin_status: an
\* unknown name returns r at once, a registered one goes on at position p.
CheckNameOr(t, n, p, r) ==
    /\ IF n \notin DOMAIN plugins
       THEN /\ pc' = [pc EXCEPT ![t] = "idle"]
            /\ ret' = [ret EXCEPT ![t] = r]
       ELSE /\ pc' = [pc EXCEPT ![t] = p]
            /\ ret' = [ret EXCEPT ![t] = NoResult]
    /\ UNCHANGED <<plugins, runtime>>

(***************************************************************************)
(* start_plugin, called on its own and by load_server and restart_plugin.  *)
(***************************************************************************)
\* As StartFailed, but the failure reaches the caller as the error an
\* unknown name gets.
StartFailed_as_unknown(t, cause) ==
    /\ err' = [err EXCEPT ![t] = cause]
    /\ Finish(t, ValueError,
              IF op[t] = "restart" THEN "restart_failed_start"
              ELSE "load_failed")

\* start_plugin returns False: load_server and restart_plugin both raise
\* RuntimeError; the status is left as it was.
StartFailed(t, cause) ==
    /\ err' = [err EXCEPT ![t] = cause]
    /\ Finish(t, IF op[t] = "start" THEN Value("False") ELSE RuntimeError,
              IF op[t] = "restart" THEN "restart_failed_start"
              ELSE "load_failed")

start_plugin(t, n) ==
    /\ Enter(t, "start", n)
    /\ CheckNameOr(t, n, "net_get", Value("False"))

load_server(t, n) ==
    /\ Enter(t, "load", n)
    /\ CheckName(t, n, "net_get")

\* self.docker_client.networks.get("tts-network")
ensure_network_get(t) ==
    /\ pc[t] = "net_get"
    /\ Call(t, "networks.get")
    /\ \E answered \in BOOLEAN : IF ~answered
       THEN StartFailed(t, "api_error")
       ELSE Goto(t, IF network THEN "ct_get" ELSE "net_create")
            /\ UNCHANGED err
    /\ UNCHANGED <<plugins, runtime, entered, handle, absorbed, seen, basis>>

\* except NotFound: self.docker_client.networks.create("tts-network", ...).
\* A runtime that already has a network of that name refuses the call.
ensure_network_create(t) ==
    /\ pc[t] = "net_create"
    /\ Call(t, "networks.create")
    /\ \E answered \in BOOLEAN : IF ~answered
       THEN StartFailed(t, "api_error") /\ UNCHANGED network
       ELSE IF network
       THEN StartFailed(t, "network_conflict") /\ UNCHANGED network
       ELSE /\ network' = TRUE
            /\ Goto(t, "ct_get")
            /\ UNCHANGED err
    /\ UNCHANGED <<plugins, containers, nextId, entered, handle, absorbed,
                   seen, basis>>

\* As start_plugin_get, but a unit of that name is not looked for: the
\* new unit is created at once.
start_plugin_get_no_lookup(t) ==
    /\ pc[t] = "ct_get"
    /\ Goto(t, "ct_run")
    /\ UNCHANGED <<plugins, runtime, entered, calls, err, handle, absorbed,
                   seen, basis>>

\* container = self.docker_client.containers.get(plugin.container_name)
start_plugin_get(t) ==
    /\ pc[t] = "ct_get"
    /\ Call(t, "containers.get")
    /\ \E answered \in BOOLEAN : IF ~answered
       THEN StartFailed(t, "api_error") /\ UNCHANGED handle
       ELSE IF containers[UnitOf(arg[t])].state = "absent"
       THEN Goto(t, "ct_run") /\ UNCHANGED <<err, handle>>
       ELSE /\ handle' = [handle EXCEPT ![t] = containers[UnitOf(arg[t])].id]
            /\ Goto(t, "ct_remove")
            /\ UNCHANGED err
    /\ UNCHANGED <<plugins, runtime, entered, absorbed, seen, basis>>

\* container.remove(force=True); NotFound is passed over
start_plugin_remove(t) ==
    /\ pc[t] = "ct_remove"
    /\ Call(t, "remove")
    /\ \E answered \in BOOLEAN : IF ~answered
       THEN StartFailed(t, "api_error") /\ UNCHANGED containers
       ELSE /\ containers' = IF Held(t)
                             THEN [containers EXCEPT ![UnitOf(arg[t])] = Absent]
                             ELSE containers
            /\ Goto(t, "ct_run")
            /\ UNCHANGED err
    /\ UNCHANGED <<plugins, network, nextId, entered, handle, absorbed,
                   seen, basis>>

\* self.docker_client.containers.run(..., name=plugin.container_name,
\* detach=True, ...): the runtime refuses a name that is taken; otherwise
\* it creates the unit and starts it, and a unit it could create but not
\* start stays behind as "created".  It cannot start a unit that asks for
\* a host port (ports=plugin.ports) a running unit has bound.
start_plugin_run(t) ==
    /\ pc[t] = "ct_run"
    /\ Call(t, "containers.run")
    /\ \E answered \in BOOLEAN : IF ~answered
       THEN StartFailed(t, "api_error") /\ UNCHANGED <<containers, nextId>>
       ELSE IF containers[UnitOf(arg[t])].state # "absent"
       THEN StartFailed(t, "name_conflict") /\ UNCHANGED <<containers, nextId>>
       ELSE /\ nextId' = nextId + 1
            /\ \/ /\ PortsFree(arg[t])
                  /\ containers' = [containers EXCEPT ![UnitOf(arg[t])] =
                                      [state |-> "running", id |-> nextId]]
                  /\ Goto(t, "set_running")
                  /\ UNCHANGED err
               \/ /\ containers' = [containers EXCEPT ![UnitOf(arg[t])] =
                                      [state |-> "created", id |-> nextId]]
                  /\ StartFailed(t, IF PortsFree(arg[t]) THEN "start_failed"
                                    ELSE "port_conflict")
    /\ UNCHANGED <<plugins, network, entered, handle, absorbed, seen, basis>>

\* plugin.status = "running"; return True.  load_server returns status
\* 'loaded', restart_plugin status 'restarted'.
start_plugin_done(t) ==
    /\ pc[t] = "set_running"
    /\ plugins' = SetStatus(arg[t], "running")
    /\ Finish(t, IF op[t] = "start" THEN Value("True")
                 ELSE Returned(IF op[t] = "load" THEN "loaded"
                               ELSE "restarted", arg[t]),
              "loaded")
    /\ UNCHANGED <<runtime, entered, handle, calls, err, absorbed, seen,
                   basis>>

(***************************************************************************)
(* stop_plugin, called on its own and by unload_server and restart_plugin. *)
(***************************************************************************)
\* As StopFailed, but unload_server raises like restart_plugin does.
StopFailed_raises(t, cause) ==
    /\ err' = [err EXCEPT ![t] = cause]
    /\ Finish(t, RuntimeError,
              IF op[t] = "restart" THEN "restart_failed_stop"
              ELSE "unload_failed")

\* stop_plugin returns False: unload_server returns status 'error',
\* restart_plugin raises RuntimeError; the status is left as it was.
StopFailed(t, cause) ==
    /\ err' = [err EXCEPT ![t] = cause]
    /\ Finish(t, IF op[t] = "stop" THEN Value("False")
                 ELSE IF op[t] = "unload" THEN Returned("error", arg[t])
                 ELSE RuntimeError,
              IF op[t] = "restart" THEN "restart_failed_stop"
              ELSE "unload_failed")

stop_plugin(t, n) ==
    /\ Enter(t, "stop", n)
    /\ CheckNameOr(t, n, "sp_get", Value("False"))

\* As unload_server, but an unknown name is answered with a result of
\* status 'not_found' instead of ValueError.
unload_server_not_found(t, n) ==
    /\ Enter(t, "unload", n)
    /\ IF n \notin DOMAIN plugins
       THEN /\ pc' = [pc EXCEPT ![t] = "idle"]
            /\ ret' = [ret EXCEPT ![t] = Returned("not_found", n)]
       ELSE /\ pc' = [pc EXCEPT ![t] = "sp_get"]
            /\ ret' = [ret EXCEPT ![t] = NoResult]
    /\ UNCHANGED <<plugins, runtime>>

unload_server(t, n) ==
    /\ Enter(t, "unload", n)
    /\ CheckName(t, n, "sp_get")

\* As stop_plugin_get, but NotFound is a failure like any other.
stop_plugin_get_strict(t) ==
    /\ pc[t] = "sp_get"
    /\ Call(t, "containers.get")
    /\ \E answered \in BOOLEAN : IF ~answered
       THEN StopFailed(t, "api_error") /\ UNCHANGED <<handle, absorbed>>
       ELSE IF containers[UnitOf(arg[t])].state = "absent"
       THEN /\ StopFailed(t, "not_found")
            /\ absorbed' = [absorbed EXCEPT ![t] = TRUE]
            /\ UNCHANGED handle
       ELSE /\ handle' = [handle EXCEPT ![t] = containers[UnitOf(arg[t])].id]
            /\ Goto(t, "sp_stop")
            /\ UNCHANGED <<err, absorbed>>
    /\ UNCHANGED <<plugins, runtime, entered, seen, basis>>

\* container = self.docker_client.containers.get(plugin.container_name);
\* NotFound is taken as "already gone"
stop_plugin_get(t) ==
    /\ pc[t] = "sp_get"
    /\ Call(t, "containers.get")
    /\ \E answered \in BOOLEAN : IF ~answered
       THEN StopFailed(t, "api_error") /\ UNCHANGED <<handle, absorbed>>
       ELSE IF containers[UnitOf(arg[t])].state = "absent"
       THEN /\ Goto(t, "set_stopped")
            /\ absorbed' = [absorbed EXCEPT ![t] = TRUE]
            /\ UNCHANGED <<err, handle>>
       ELSE /\ handle' = [handle EXCEPT ![t] = containers[UnitOf(arg[t])].id]
            /\ Goto(t, "sp_stop")
            /\ UNCHANGED <<err, absorbed>>
    /\ UNCHANGED <<plugins, runtime, entered, seen, basis>>

\* container.stop(); NotFound is taken as "already gone"
stop_plugin_stop(t) ==
    /\ pc[t] = "sp_stop"
    /\ Call(t, "stop")
    /\ \E answered \in BOOLEAN : IF ~answered
       THEN StopFailed(t, "api_error") /\ UNCHANGED <<containers, absorbed>>
       ELSE IF Held(t)
       THEN /\ containers' = [containers EXCEPT
                                ![UnitOf(arg[t])].state = "exited"]
            /\ Goto(t, "sp_remove")
            /\ UNCHANGED <<err, absorbed>>
       ELSE /\ Goto(t, "set_stopped")
            /\ absorbed' = [absorbed EXCEPT ![t] = TRUE]
            /\ UNCHANGED <<err, containers>>
    /\ UNCHANGED <<plugins, network, nextId, entered, handle, seen, basis>>

\* As stop_plugin_remove, but the stopped unit is never removed.
stop_plugin_remove_skipped(t) ==
    /\ pc[t] = "sp_remove"
    /\ Goto(t, "set_stopped")
    /\ UNCHANGED <<plugins, runtime, entered, calls, err, handle, absorbed,
                   seen, basis>>

\* container.remove(); NotFound is taken as "already gone"
stop_plugin_remove(t) ==
    /\ pc[t] = "sp_remove"
    /\ Call(t, "remove")
    /\ \E answered \in BOOLEAN : IF ~answered
       THEN StopFailed(t, "api_error") /\ UNCHANGED <<containers, absorbed>>
       ELSE /\ containers' = IF Held(t)
                             THEN [containers EXCEPT ![UnitOf(arg[t])] = Absent]
                             ELSE containers
            /\ absorbed' = [absorbed EXCEPT ![t] = ~Held(t)]
            /\ Goto(t, "set_stopped")
            /\ UNCHANGED err
    /\ UNCHANGED <<plugins, network, nextId, entered, handle, seen, basis>>

\* As stop_plugin_done, but the status is not written.
stop_plugin_done_no_write(t) ==
    /\ pc[t] = "set_stopped"
    /\ IF op[t] = "restart"
       THEN Goto(t, "net_get") /\ handle' = [handle EXCEPT ![t] = 0]
       ELSE Finish(t, IF op[t] = "stop" THEN Value("True")
                      ELSE Returned("unloaded", arg[t]), "unloaded")
            /\ UNCHANGED handle
    /\ UNCHANGED <<plugins, runtime, entered, calls, err, absorbed, seen,
                   basis>>

\* plugin.status = "stopped"; return True.  unload_server returns status
\* 'unloaded'; restart_plugin goes on with start_plugin.
stop_plugin_done(t) ==
    /\ pc[t] = "set_stopped"
    /\ plugins' = SetStatus(arg[t], "stopped")
    /\ IF op[t] = "restart"
       THEN Goto(t, "net_get") /\ handle' = [handle EXCEPT ![t] = 0]
       ELSE Finish(t, IF op[t] = "stop" THEN Value("True")
                      ELSE Returned("unloaded", arg[t]), "unloaded")
            /\ UNCHANGED handle
    /\ UNCHANGED <<runtime, entered, calls, err, absorbed, seen, basis>>

(***************************************************************************)
(* restart_plugin: stop_plugin, then start_plugin.                         *)
(***************************************************************************)
\* As restart_plugin, but start_plugin is called without stop_plugin
\* before it.
restart_plugin_start_only(t, n) ==
    /\ Enter(t, "restart", n)
    /\ CheckName(t, n, "net_get")

restart_plugin(t, n) ==
    /\ Enter(t, "restart", n)
    /\ CheckName(t, n, "sp_get")

(***************************************************************************)
(* get_plugin_status, called on its own and by get_server_status.          *)
(***************************************************************************)
get_server_status(t, n) ==
    /\ Enter(t, "status", n)
    /\ CheckName(t, n, "st_get")

\* As get_plugin_status, but an unknown name raises ValueError, as it does
\* in get_server_status.
get_plugin_status_raises(t, n) ==
    /\ Enter(t, "get_status", n)
    /\ CheckName(t, n, "st_get")

get_plugin_status(t, n) ==
    /\ Enter(t, "get_status", n)
    /\ CheckNameOr(t, n, "st_get", Value("None"))

\* What a status lookup that came to s hands back: get_plugin_status the
\* status, get_server_status a result that carries it.
StatusResult(t, s) ==
    IF op[t] = "get_status" THEN Value(s) ELSE Returned(s, arg[t])

\* for name, plugin in self.plugins.items(): the loop starts with any of
\* the keys; a registry without keys returns the empty dict at once.
get_all_plugins(t) ==
    /\ \E n \in IF DOMAIN plugins = {} THEN {"nonexistent"}
                 ELSE DOMAIN plugins :
          Enter(t, "list", n)
    /\ IF DOMAIN plugins = {}
       THEN /\ pc' = [pc EXCEPT ![t] = "idle"]
            /\ ret' = [ret EXCEPT ![t] = Value("listed")]
       ELSE /\ pc' = [pc EXCEPT ![t] = "st_get"]
            /\ ret' = [ret EXCEPT ![t] = NoResult]
    /\ UNCHANGED <<plugins, runtime>>

\* As StatusReturned, but the entry of get_all_plugins holds the status
\* the plugin was recorded with before the lookup.
StatusReturned_cached(t, s) ==
    IF op[t] = "list"
    THEN /\ result' = [result EXCEPT ![t] =
                         PutEntry(@, arg[t], plugins[arg[t]].status)]
         /\ IF DOMAIN plugins \subseteq DOMAIN result'[t]
            THEN Finish(t, Value("listed"), "none") /\ UNCHANGED arg
            ELSE /\ \E n \in DOMAIN plugins \ DOMAIN result'[t] :
                      arg' = [arg EXCEPT ![t] = n]
                 /\ Goto(t, "st_get")
    ELSE Finish(t, StatusResult(t, s), "none") /\ UNCHANGED <<arg, result>>

\* get_plugin_status returns s.  To a caller, and to get_server_status,
\* that is the end of the operation; get_all_plugins writes the entry
\* result[name] with it, and goes on with the next key or returns result.
StatusReturned(t, s) ==
    IF op[t] = "list"
    THEN /\ result' = [result EXCEPT ![t] = PutEntry(@, arg[t], s)]
         /\ IF DOMAIN plugins \subseteq DOMAIN result'[t]
            THEN Finish(t, Value("listed"), "none") /\ UNCHANGED arg
            ELSE /\ \E n \in DOMAIN plugins \ DOMAIN result'[t] :
                      arg' = [arg EXCEPT ![t] = n]
                 /\ Goto(t, "st_get")
    ELSE Finish(t, StatusResult(t, s), "none") /\ UNCHANGED <<arg, result>>

\* container = self.docker_client.containers.get(plugin.container_name);
\* status = container.status.  NotFound gives "stopped"; any other failure
\* returns "unknown" and writes nothing.
get_plugin_status_get(t) ==
    /\ pc[t] = "st_get"
    /\ Call(t, "containers.get")
    /\ basis' = [basis EXCEPT ![t] = last[arg[t]]]
    /\ \E answered \in BOOLEAN : IF ~answered
       THEN /\ err' = [err EXCEPT ![t] = "api_error"]
            /\ StatusReturned(t, "unknown")
            /\ UNCHANGED seen
       ELSE /\ seen' = [seen EXCEPT ![t] =
                          IF containers[UnitOf(arg[t])].state = "absent"
                          THEN "stopped"
                          ELSE containers[UnitOf(arg[t])].state]
            /\ Goto(t, "st_set")
            /\ UNCHANGED <<err, arg, result>>
    /\ UNCHANGED <<plugins, runtime, started, handle, absorbed>>

\* plugin.status = status; return status
get_plugin_status_done(t) ==
    /\ pc[t] = "st_set"
    /\ plugins' = SetStatus(arg[t], seen[t])
    /\ StatusReturned(t, seen[t])
    /\ UNCHANGED <<runtime, started, handle, calls, err, absorbed, seen,
                   basis>>

(***************************************************************************)
(* health_check of the forward service of the GPU variant                  *)
(* (plugins/bark-gpu/forward/app/main.py), which probes the TTS server of  *)
(* that plugin.                                                            *)
(***************************************************************************)
\* The plugin whose forward service is asked for its health.
Forwarded == "bark-gpu"

\* How the GET of TTS_SERVER_URL/health may end: the connection is
\* refused, no answer comes in time, the server answers 200, or it
\* answers with another status.  A server whose unit does not run cannot
\* be reached.
Outcomes(n) ==
    IF containers[UnitOf(n)].state = "running"
    THEN {"refused", "timeout", "200", "503"}
    ELSE {"refused", "timeout"}

\* str(e) of the exception the request raised: a timeout has no message.
Str(o) == IF o = "refused" THEN "Cannot connect to host" ELSE ""

\* @app.get("/health"): a request for the health of the plugin comes in.
health_check(t) ==
    /\ Forwarded \in DOMAIN plugins
    /\ Enter(t, "health", Forwarded)
    /\ pc' = [pc EXCEPT ![t] = "hc_get"]
    /\ ret' = [ret EXCEPT ![t] = NoResult]
    /\ UNCHANGED <<plugins, runtime>>

\* As health_check_get, but any answer of the server counts as healthy.
health_check_get_any_answer(t) ==
    /\ pc[t] = "hc_get"
    /\ Call(t, "session.get")
    /\ \E o \in Outcomes(arg[t]) :
          /\ err' = [err EXCEPT ![t] = IF o = "200" THEN "none" ELSE o]
          /\ Finish(t, IF o \in {"200", "503"} THEN Health("healthy", "absent")
                       ELSE Health("unhealthy", Str(o)),
                    "none")
    /\ UNCHANGED <<plugins, runtime, entered, handle, absorbed, seen, basis>>

\* session.get(f"{TTS_SERVER_URL}/health"): status 200 returns healthy,
\* any other status unhealthy with a fixed detail, and an exception
\* unhealthy with str(e) as the detail.
health_check_get(t) ==
    /\ pc[t] = "hc_get"
    /\ Call(t, "session.get")
    /\ \E o \in Outcomes(arg[t]) :
          /\ err' = [err EXCEPT ![t] = IF o = "200" THEN "none" ELSE o]
          /\ Finish(t, IF o = "200" THEN Health("healthy", "absent")
                       ELSE IF o = "503"
                       THEN Health("unhealthy", "TTS service not responding")
                       ELSE Health("unhealthy", Str(o)),
                    "none")
    /\ UNCHANGED <<plugins, runtime, entered, handle, absorbed, seen, basis>>

(***************************************************************************)
(* The world around the manager.                                           *)
(***************************************************************************)
\* Someone else removes the unit of plugin n from the runtime.
ExternalRemove(n) ==
    /\ containers[UnitOf(n)].state # "absent"
    /\ containers' = [containers EXCEPT ![UnitOf(n)] = Absent]
    /\ last' = [last EXCEPT ![n] = "external"]
    /\ UNCHANGED <<plugins, network, nextId, pc, op, arg, handle,
                   calls, err, absorbed, conc, ret, seen, basis, left,
                   result, tree, scan, visited>>

\* The steps of an operation that is under way.
Steps ==
    \/ \E t \in Threads : ensure_network_get(t)
    \/ \E t \in Threads : ensure_network_create(t)
    \/ \E t \in Threads : start_plugin_get(t)
    \/ \E t \in Threads : start_plugin_remove(t)
    \/ \E t \in Threads : start_plugin_run(t)
    \/ \E t \in Threads : start_plugin_done(t)
    \/ \E t \in Threads : stop_plugin_get(t)
    \/ \E t \in Threads : stop_plugin_stop(t)
    \/ \E t \in Threads : stop_plugin_remove(t)
    \/ \E t \in Threads : stop_plugin_done(t)
    \/ \E t \in Threads : get_plugin_status_get(t)
    \/ \E t \in Threads : get_plugin_status_done(t)

\* The manager's own steps, with the operations main.py calls.
Next ==
    \/ \E t \in Threads, n \in Names : load_server(t, n)
    \/ \E t \in Threads, n \in Names : unload_server(t, n)
    \/ \E t \in Threads, n \in Names : restart_plugin(t, n)
    \/ \E t \in Threads, n \in Names : get_server_status(t, n)
    \/ Steps

\* The manager's own steps, with the operations below those, as the tests
\* call them.
NextLow ==
    \/ \E t \in Threads, n \in Names : start_plugin(t, n)
    \/ \E t \in Threads, n \in Names : stop_plugin(t, n)
    \/ \E t \in Threads, n \in Names : get_plugin_status(t, n)
    \/ Steps

\* The manager's steps and those of someone else at the runtime.
NextSeq ==
    \/ Next
    \/ \E n \in DOMAIN plugins : ExternalRemove(n)

\* Callers in two threads, interleaved at every runtime call; the manager
\* is the runtime's only client.
Spec == Init /\ [][Next]_vars

\* One caller, operations one at a time, and someone else who may remove
\* units from the runtime at any moment.
SpecSeq == InitSeq /\ [][NextSeq]_vars

\* The scan of a plugin directory.
NextScan ==
    \/ scan_plugins_iterdir
    \/ \E d \in DOMAIN PluginTree : scan_plugins_visit(d)
    \/ scan_plugins_return

\* __init__ scans one of the plugin directories.
SpecScan == InitScan /\ [][NextScan]_vars

\* One caller of start_plugin, stop_plugin and get_plugin_status.
SpecLow == InitSeq /\ [][NextLow]_vars

\* The manager's own steps, with load, unload and the listing of all
\* plugins.
NextAll ==
    \/ \E t \in Threads, n \in Names : load_server(t, n)
    \/ \E t \in Threads, n \in Names : unload_server(t, n)
    \/ \E t \in Threads : get_all_plugins(t)
    \/ Steps

\* One caller of load_server, unload_server and get_all_plugins; the
\* manager is the runtime's only client.
SpecAll == InitSeq /\ [][NextAll]_vars

\* The plugin a caller works on when each keeps to a plugin of its own.
Own(t) == IF t = "t1" THEN "bark" ELSE "bark-gpu"

\* The manager's own steps, with the operations main.py calls, each
\* caller on its own plugin.
NextApart ==
    \/ \E t \in Threads : load_server(t, Own(t))
    \/ \E t \in Threads : unload_server(t, Own(t))
    \/ \E t \in Threads : restart_plugin(t, Own(t))
    \/ \E t \in Threads : get_server_status(t, Own(t))
    \/ Steps

\* Callers in two threads, interleaved at every runtime call, one on each
\* of two plugins.
SpecApart == Init /\ [][NextApart]_vars

\* One caller, operations one at a time; the manager is the runtime's
\* only client.
SpecAlone == InitSeq /\ [][Next]_vars

\* The manager's steps, with scan_plugins called again between the
\* operations.
NextRescan ==
    \/ Next
    \/ scan_plugins_again
    \/ NextScan

\* One caller of the operations and of scan_plugins.
SpecRescan == InitSeq /\ [][NextRescan]_vars

\* The manager's steps and those of the forward service's health_check.
NextHealth ==
    \/ Next
    \/ \E t \in Threads : health_check(t)
    \/ \E t \in Threads : health_check_get(t)

\* One caller of the manager and of the forward service's health_check.
SpecHealth == InitSeq /\ [][NextHealth]_vars

(***************************************************************************)
(* Properties.                                                             *)
(***************************************************************************)
Registered == DOMAIN plugins

\* Thread t is back from operation o on a registered plugin.
Back(t, o) == pc[t] = "idle" /\ op[t] = o /\ arg[t] \in Registered

Unit(n) == containers[UnitOf(n)]

\* C1: an operation (load, unload, restart, status) on a name that is not
\* a registry key raises ValueError in the step that starts it, without a
\* runtime call and without a change to any plugin's status or to the
\* runtime.  (With one caller, the thread that is idle when an operation
\* starts is the one that starts it.)
C1_UnknownPluginFails ==
    [][\A t \in Threads :
         (pc[t] = "idle" /\ left' < left /\ arg'[t] \notin Registered)
         => /\ ret'[t] = ValueError
            /\ pc'[t] = "idle"
            /\ calls'[t] = {}
            /\ plugins' = plugins
            /\ <<containers, network, nextId>>' = <<containers, network, nextId>>
      ]_vars

C1_Witness ==
    \E t \in Threads :
        /\ pc[t] = "idle" /\ op[t] = "restart" /\ arg[t] = "broken"
        /\ ret[t] = ValueError
        /\ plugins["bark"].status = "running"

\* C2: with one caller and nobody else touching the unit, a status call
\* that the runtime answers returns "running" when the last operation on
\* the plugin was a successful load, and "stopped" when it was a
\* successful unload; for every registry key.
C2_RoundTrip ==
    \A t \in Threads :
        (Back(t, "status") /\ err[t] = "none")
        => /\ basis[t] = "loaded" => ret[t].status = "running"
           /\ basis[t] = "unloaded" => ret[t].status = "stopped"

\* The end of a round trip of the GPU variant: a unit was created, the
\* unload that followed succeeded, and status returns stopped.
C2_Witness ==
    \E t \in Threads :
        /\ Back(t, "status") /\ arg[t] = "bark-gpu"
        /\ basis[t] = "unloaded" /\ ret[t].status = "stopped"
        /\ nextId > 2

\* C3: with one caller, a load never fails with a name conflict; when its
\* lookup found a unit of the plugin's name it issues the remove before
\* the create; and when it returns 'loaded' the status is running and,
\* unless someone else removed it since, the unit of that name is the one
\* this load created, running.
C3_IdempotentStart ==
    \A t \in Threads :
        op[t] = "load" /\ arg[t] \in Registered
        => /\ err[t] # "name_conflict"
           /\ ("containers.run" \in calls[t] /\ handle[t] # 0)
                 => "remove" \in calls[t]
           /\ (pc[t] = "idle" /\ ret[t].status = "loaded")
                 => /\ plugins[arg[t]].status = "running"
                    /\ last[arg[t]] = "loaded"
                          => Unit(arg[t]) = [state |-> "running",
                                             id |-> nextId - 1]

\* The second of two loads in sequence: the unit it found and removed was
\* created by the first.
C3_Witness ==
    \E t \in Threads :
        /\ Back(t, "load") /\ ret[t].status = "loaded"
        /\ handle[t] >= 2
        /\ last[arg[t]] = "loaded"

\* C4: when a load of a registered plugin fails, then as the error reaches
\* the caller no unit of the plugin is left in the runtime and the status
\* of the plugin is stopped.
C4_RollbackOnFailedLoad ==
    \A t \in Threads :
        (Back(t, "load") /\ ret[t] = RuntimeError)
        => /\ Unit(arg[t]).state = "absent"
           /\ plugins[arg[t]].status = "stopped"

\* Failures the runtime reports for reasons of its own, as opposed to the
\* conflicts the manager's own calls run into.
Faults == {"api_error", "start_failed"}

\* The operations t and u run, or ran last, were under way at the same time.
Overlap(t, u) == u \in conc[t] \/ t \in conc[u]

\* C5: a load and an unload of the same plugin that overlap serialize:
\* once both are back, without a fault of the runtime, the plugin is not
\* recorded as running with no running unit behind it, and no unit runs
\* that is recorded as stopped.  (A plugin running and recorded as running
\* is what unload-then-load gives, and is not held against the code.)
C5_LoadUnloadSerialize ==
    \A t, u \in Threads :
        (/\ Back(t, "unload") /\ Back(u, "load") /\ arg[t] = arg[u]
         /\ Overlap(t, u)
         /\ err[t] \notin Faults /\ err[u] \notin Faults)
        => /\ ~(/\ plugins[arg[t]].status = "running"
                /\ Unit(arg[t]).state # "running")
           /\ ~(/\ Unit(arg[t]).state = "running"
                /\ plugins[arg[t]].status = "stopped")

\* Thread t is between the first runtime call of a load, unload or restart
\* and its return.
Critical(t) ==
    /\ op[t] \in Mutating
    /\ pc[t] \notin {"idle", "off"}
    /\ calls[t] # {}

\* C6: no two of load, unload and restart on the same plugin are at the
\* same time between their first runtime call and their return.
C6_MutualExclusion ==
    \A t, u \in Threads :
        (t # u /\ Critical(t) /\ Critical(u)) => arg[t] # arg[u]

\* C7: two overlapping loads of two distinct registered plugins, whose
\* manifests ask for different host ports, both return 'loaded' when the
\* runtime reports no fault of its own to either.
C7_ConcurrentLoadsSucceed ==
    \A t, u \in Threads :
        (/\ Back(t, "load") /\ Back(u, "load") /\ arg[t] # arg[u]
         /\ plugins[arg[t]].ports \cap plugins[arg[u]].ports = {}
         /\ Overlap(t, u)
         /\ err[t] \notin Faults /\ err[u] \notin Faults)
        => ret[t].status = "loaded" /\ ret[u].status = "loaded"

\* C8: with one caller, a restart whose stop phase succeeded and whose
\* start phase failed raises RuntimeError, and afterwards the recorded
\* status is not running, no unit of the plugin runs, and a status call
\* does not return running.
C8_RestartFailedNotRunning ==
    \A t \in Threads :
        /\ (Back(t, "restart") /\ "networks.get" \in calls[t]
              /\ err[t] # "none")
           => /\ ret[t] = RuntimeError
              /\ plugins[arg[t]].status # "running"
              /\ Unit(arg[t]).state # "running"
        /\ (Back(t, "status") /\ basis[t] = "restart_failed_start")
           => ret[t].status # "running"

\* The stop phase stopped a unit, the start phase created one it could not
\* start.
C8_Witness ==
    \E t \in Threads :
        /\ Back(t, "restart") /\ "stop" \in calls[t]
        /\ err[t] = "start_failed" /\ ret[t] = RuntimeError

\* C9: unload of a registered plugin never raises: it returns 'unloaded'
\* when no call of the teardown failed and 'error' when one did, and the
\* result names the plugin.
C9_UnloadNeverRaises ==
    \A t \in Threads :
        Back(t, "unload")
        => /\ ret[t].kind = "return"
           /\ ret[t].server_type = arg[t]
           /\ ret[t].status = IF err[t] = "none" THEN "unloaded" ELSE "error"

\* The unit was stopped, its removal failed.
C9_Witness ==
    \E t \in Threads :
        /\ Back(t, "unload") /\ "remove" \in calls[t]
        /\ ret[t] = Returned("error", arg[t])

\* C10: with one caller, an unload that finds the unit gone, at the lookup
\* or at the stop or remove after it, returns 'unloaded' and leaves the
\* status stopped; and an unload right after a successful unload, answered
\* by the runtime, returns 'unloaded' with the state the first one left.
C10_IdempotentStop ==
    \A t \in Threads :
        /\ (Back(t, "unload") /\ absorbed[t])
           => /\ ret[t].status = "unloaded"
              /\ plugins[arg[t]].status = "stopped"
        /\ (Back(t, "unload") /\ basis[t] = "unloaded" /\ err[t] = "none")
           => /\ ret[t].status = "unloaded"
              /\ plugins[arg[t]].status = "stopped"
              /\ Unit(arg[t]).state = "absent"

\* The unit was there at the lookup and gone at the stop or the remove.
C10_Witness ==
    \E t \in Threads :
        /\ Back(t, "unload") /\ absorbed[t] /\ handle[t] # 0
        /\ ret[t].status = "unloaded"

\* C11: a status call on a registered plugin returns what its lookup at
\* the runtime found (the unit's status, or stopped when there is no unit),
\* whatever the recorded status was, and returns "unknown" when the lookup
\* failed; and in each of these outcomes the recorded status of the plugin
\* is the returned value when the call returns.
C11_StatusFromRuntime ==
    \A t \in Threads :
        Back(t, "status")
        => /\ ret[t].kind = "return"
           /\ ret[t].status = IF err[t] = "none" THEN seen[t] ELSE "unknown"
           /\ plugins[arg[t]].status = ret[t].status

\* The lookup of thread t found a running unit: one that no load, unload
\* or restart had touched before, or the one the last load created, and
\* that nobody had removed.
FoundRunning(t) == basis[t] \in {"none", "loaded"} /\ handle[t] # 0

\* C12: a load of a plugin whose unit is found running is a no-op: it
\* issues no remove and no create, it returns a result, and the unit of
\* the plugin is still the one it found, running.
C12_LoadRunningIsNoOp ==
    \A t \in Threads :
        (Back(t, "load") /\ FoundRunning(t))
        => /\ "remove" \notin calls[t]
           /\ "containers.run" \notin calls[t]
           /\ ret[t].kind = "return"
           /\ last[arg[t]] # "external"
                 => Unit(arg[t]) = [state |-> "running", id |-> handle[t]]

\* The host ports plugin n holds by the manager's record: those of its
\* manifest while it is recorded as running.
Recorded(n) == IF plugins[n].status = "running" THEN plugins[n].ports ELSE {}

\* C13: in every state, no host port is held by two distinct plugins,
\* neither by the manager's record of what is loaded nor at the runtime.
C13_PortsDisjoint ==
    \A p, q \in Registered :
        p # q => /\ Recorded(p) \cap Recorded(q) = {}
                 /\ Bound(p) \cap Bound(q) = {}

\* C14: when an unload of a registered plugin is back, whatever it
\* returned, the plugin holds no host port: it is not recorded as running
\* and its unit has none bound.
C14_UnloadReleasesPorts ==
    \A t \in Threads :
        Back(t, "unload") => Recorded(arg[t]) = {} /\ Bound(arg[t]) = {}

\* The start of the plugin t loads went through: the runtime created and
\* started the unit and reported no failure.
StartSucceeded(t) == "containers.run" \in calls[t] /\ err[t] = "none"

\* C15: a load of a registered plugin returns status 'loaded' with
\* server_type the plugin exactly when its start succeeded, and raises
\* RuntimeError when it did not; a load of a name that is not registered
\* raises ValueError, which is another error.
C15_LoadResult ==
    \A t \in Threads :
        (pc[t] = "idle" /\ op[t] = "load")
        => /\ ValueError # RuntimeError
           /\ IF arg[t] \in Registered
              THEN /\ ret[t] = Returned("loaded", arg[t]) <=> StartSucceeded(t)
                   /\ ~StartSucceeded(t) => ret[t] = RuntimeError
              ELSE ret[t] = ValueError

\* A load of a registered plugin that the runtime could not start, its
\* host port being bound by the unit of the other variant.
C15_Witness ==
    \E t \in Threads :
        /\ Back(t, "load") /\ err[t] = "port_conflict"
        /\ ret[t] = RuntimeError

\* C16: start_plugin, stop_plugin and get_plugin_status on a name that is
\* not a registry key return in the step that starts them, without
\* raising: start_plugin and stop_plugin return False, get_plugin_status
\* returns None; no runtime call is issued, the runtime is left as it is
\* and the registry keeps its keys and entries.
C16_LowLevelUnknownName ==
    [][\A t \in Threads :
         (pc[t] = "idle" /\ left' < left /\ arg'[t] \notin Registered)
         => /\ op'[t] \in {"start", "stop"} => ret'[t] = Value("False")
            /\ op'[t] = "get_status" => ret'[t] = Value("None")
            /\ pc'[t] = "idle"
            /\ calls'[t] = {}
            /\ plugins' = plugins
            /\ <<containers, network, nextId>>' = <<containers, network, nextId>>
      ]_vars

\* After a successful start of one plugin, a status lookup for a
\* directory without a manifest has returned None.
C16_Witness ==
    \E t \in Threads :
        /\ pc[t] = "idle" /\ op[t] = "get_status" /\ arg[t] = "broken"
        /\ ret[t] = Value("None")
        /\ \E n \in Registered : plugins[n].status = "running"

\* C17: when a runtime call of a load, unload or restart gets no answer,
\* the operation still comes back, with an error, and the plugin is left
\* recorded as unknown.
C17_TimeoutLeavesUnknown ==
    \A t \in Threads :
        (/\ pc[t] = "idle" /\ op[t] \in {"load", "unload", "restart"}
         /\ err[t] = "api_error")
        => /\ ret[t] \in {RuntimeError, Returned("error", arg[t])}
           /\ plugins[arg[t]].status = "unknown"

\* C18: scan_plugins never raises; an entry it has been through is not
\* registered when its manifest is missing or cannot be loaded, and is
\* registered, with what its manifest says, when it is a directory with a
\* manifest that loads, whatever it went through before; and when the
\* scan of a directory it could list has returned, every directory with
\* a manifest that loads is registered.
C18_ScanIsolation ==
    /\ scan \in {"start", "iterating", "returned", "unlisted"}
    /\ \A d \in DOMAIN tree :
          /\ tree[d].config \in {"none", "bad"} => d \notin DOMAIN plugins
          /\ (tree[d].dir /\ tree[d].config = "ok"
                 /\ (d \in visited \/ scan = "returned"))
             => /\ d \in DOMAIN plugins
                /\ plugins[d] = PluginInfo(d, tree[d])

\* The scan has returned from a directory with a manifest that cannot be
\* loaded, a subdirectory without one, and a plugin that is registered.
C18_Witness ==
    /\ scan = "returned"
    /\ \E b, m, d \in DOMAIN tree :
          /\ tree[b].dir /\ tree[b].config = "bad"
          /\ tree[m].dir /\ tree[m].config = "none"
          /\ d \in DOMAIN plugins

\* Entry e holds exactly one form of manifest: a config.yaml that loads
\* and no docker-compose.yml, or a docker-compose.yml and no config.yaml.
OneForm(e) ==
    \/ e.config = "ok" /\ ~e.compose
    \/ e.config = "none" /\ e.compose

\* C19: when the scan of a directory it could list has returned, a
\* subdirectory (whose config.yaml, if any, loads) is registered exactly
\* when it holds one form of manifest and not the other.
C19_ExactlyOneManifestForm ==
    scan = "returned"
    => \A d \in DOMAIN tree :
          (tree[d].dir /\ tree[d].config # "bad")
          => (d \in DOMAIN plugins <=> OneForm(tree[d]))

\* A CPU-variant directory and the GPU-variant directory of the same
\* plugin, both with a manifest that loads.
Variants ==
    {v \in (DOMAIN tree) \X (DOMAIN tree) :
       /\ v[2] = v[1] \o "-gpu"
       /\ Registers(tree[v[1]]) /\ Registers(tree[v[2]])}

\* The two variants are registered under two keys, with the same name
\* and with units of their own.
KeptApart(x, g) ==
    /\ x # g /\ {x, g} \subseteq DOMAIN plugins
    /\ plugins[x].name = x /\ plugins[g].name = x
    /\ plugins[x].container_name = "tts-" \o x
    /\ plugins[g].container_name = "tts-" \o g
    /\ plugins[x].container_name # plugins[g].container_name

\* A step of an operation on one variant leaves the entry and the unit of
\* the other as they are.
OtherUntouched(x, g) ==
    \A t \in Threads :
        (pc'[t] # pc[t] /\ arg'[t] = x)
        => plugins'[g] = plugins[g] /\ Unit(g)' = Unit(g)

\* C20: a CPU variant X and a GPU variant X-gpu that both have a manifest
\* that loads are registered under the two keys X and X-gpu, both with
\* name X, with the units tts-X and tts-X-gpu; and no step of an
\* operation on one of them changes the entry or the unit of the other.
C20_VariantsKeptApart ==
    /\ [](\A v \in Variants : KeptApart(v[1], v[2]))
    /\ [][\A v \in Variants :
            OtherUntouched(v[1], v[2]) /\ OtherUntouched(v[2], v[1])]_vars

\* Both variants were loaded, the GPU variant was unloaded again, and the
\* CPU variant still runs.
C20_Witness ==
    /\ last["bark"] = "loaded" /\ last["bark-gpu"] = "unloaded"
    /\ Unit("bark").state = "running" /\ plugins["bark"].status = "running"
    /\ Unit("bark-gpu").state = "absent"
    /\ plugins["bark-gpu"].status = "stopped"

\* What the runtime holds of plugin n, as a status lookup reads it: the
\* status of its unit, and stopped when there is none.
Live(n) == IF Unit(n).state = "absent" THEN "stopped" ELSE Unit(n).state

\* C21: with one caller and nothing else at the runtime, get_all_plugins
\* never holds an entry for a name that is not a registry key; when it
\* has returned, its dict has one entry for every registry key, and the
\* status in each is what the lookup of that plugin returned: the status
\* of the unit at the runtime, stopped when there is none, and "unknown"
\* only when a lookup failed; whatever status was recorded before.
C21_ListAll ==
    \A t \in Threads :
        /\ DOMAIN result[t] \subseteq Registered
        /\ (pc[t] = "idle" /\ op[t] = "list")
           => /\ ret[t] = Value("listed")
              /\ DOMAIN result[t] = Registered
              /\ \A n \in Registered : result[t][n] \in {Live(n), "unknown"}
              /\ err[t] = "none"
                    => \A n \in Registered : result[t][n] = Live(n)

\* A listing after a load that left a unit it could not start: the plugin
\* was recorded as stopped, its entry says created, and the entry of the
\* other plugin says stopped.
C21_Witness ==
    \E t \in Threads :
        /\ pc[t] = "idle" /\ op[t] = "list" /\ err[t] = "none"
        /\ \E n, m \in Registered :
              result[t][n] = "created" /\ result[t][m] = "stopped"

PluginStates ==
    {"stopped", "starting", "running", "partial", "stopping", "unknown"}

\* C23: in every state the recorded status of every registered plugin is
\* one of stopped, starting, running, partial, stopping and unknown, and
\* so is every status a status call on a registered plugin has returned,
\* whatever status the runtime reports for the unit.
C23_StatusDomain ==
    /\ \A n \in Registered : plugins[n].status \in PluginStates
    /\ \A t \in Threads :
          Back(t, "status") => ret[t].status \in PluginStates

\* A step of a load, unload or restart takes the recorded status of its
\* plugin from a to b.
Jumps(a, b) ==
    \E t \in Threads :
        /\ pc'[t] # pc[t] /\ op[t] \in {"load", "unload", "restart"}
        /\ arg[t] \in Registered
        /\ plugins[arg[t]].status = a /\ plugins'[arg[t]].status = b

\* C24: from the first runtime call of a load until it returns the
\* plugin is recorded as starting, and from the first runtime call of an
\* unload until it returns as stopping; and no step of a load, unload or
\* restart takes the recorded status from stopped to running or from
\* running to stopped.
C24_LifecycleOrdering ==
    /\ [](\A t \in Threads :
            Critical(t)
            => /\ op[t] = "load" => plugins[arg[t]].status = "starting"
               /\ op[t] = "unload" => plugins[arg[t]].status = "stopping")
    /\ [][~Jumps("stopped", "running") /\ ~Jumps("running", "stopped")]_vars

\* Where a thread is while stop_plugin runs its calls, and while
\* start_plugin runs.
StopPhase == {"sp_get", "sp_stop", "sp_remove"}
StartPhase == {"net_get", "net_create", "ct_get", "ct_remove", "ct_run",
               "set_running"}

\* The calls of start_plugin that create something at the runtime.
Creating == {"networks.create", "containers.run"}

\* C25: a restart enters its start phase only from the end of a stop
\* phase in which no call failed, with the plugin recorded as stopped; no
\* call of its stop phase changes a recorded status, so that a restart
\* whose stop phase failed leaves the status it found; such a restart
\* raises RuntimeError and has issued no call that creates a unit; and a
\* restart returns 'restarted' only when no call of either phase failed,
\* after the unit was created, with the plugin recorded as running.
C25_RestartInOrder ==
    /\ [](\A t \in Threads :
            Back(t, "restart")
            => /\ calls[t] \cap {"networks.get"} = {}
                     => /\ ret[t] = RuntimeError
                        /\ err[t] # "none"
                        /\ calls[t] \cap Creating = {}
               /\ ret[t].status = "restarted"
                     => /\ ret[t] = Returned("restarted", arg[t])
                        /\ err[t] = "none"
                        /\ {"containers.get", "containers.run"}
                              \subseteq calls[t]
                        /\ plugins[arg[t]].status = "running")
    /\ [][\A t \in Threads :
            /\ (op'[t] = "restart" /\ pc'[t] \in StartPhase
                   /\ pc[t] \notin StartPhase)
               => /\ pc[t] = "set_stopped" /\ err[t] = "none"
                  /\ plugins'[arg[t]].status = "stopped"
            /\ (op[t] = "restart" /\ pc[t] \in StopPhase)
               => plugins' = plugins
         ]_vars

\* A restart of a plugin recorded as running whose unit was stopped and
\* could not be removed: it raised, nothing of the start phase was
\* called, and the plugin is still recorded as running.
C25_Witness ==
    \E t \in Threads :
        /\ Back(t, "restart") /\ ret[t] = RuntimeError
        /\ "remove" \in calls[t] /\ "networks.get" \notin calls[t]
        /\ plugins[arg[t]].status = "running"

\* What scan_plugins took from the manifest of plugin n: all of its
\* entry but the status.
Descriptor(n) == [plugins[n] EXCEPT !.status = "stopped"]

\* A step of a load, unload, restart or status call on plugin n.
StepOn(n) ==
    \E t \in Threads :
        /\ pc[t] # "idle" /\ pc'[t] # pc[t] /\ arg[t] = n
        /\ op[t] \in {"load", "unload", "restart", "status"}

\* C26: the recorded status of a registered plugin changes only in a
\* step of a load, unload, restart or status call on that plugin, so not
\* when scan_plugins is run again; and what the manifest gave (name,
\* unit name, ports) changes only in a step of scan_plugins.
C26_StatusFrame ==
    [][\A n \in Registered :
         /\ plugins'[n].status # plugins[n].status => StepOn(n)
         /\ Descriptor(n)' # Descriptor(n) => visited' # visited
      ]_vars

\* C27: with one caller and nothing else at the runtime, when a load,
\* unload or restart of a plugin is back, with a result or with an error,
\* a plugin recorded as running has a unit of its name at the runtime
\* and a plugin recorded as stopped has none.
C27_CacheAgrees ==
    \A t \in Threads :
        (Back(t, "load") \/ Back(t, "unload") \/ Back(t, "restart"))
        => /\ plugins[arg[t]].status = "running"
                 => Unit(arg[t]).state # "absent"
           /\ plugins[arg[t]].status = "stopped"
                 => Unit(arg[t]).state = "absent"

\* A step of thread t, in an operation on plugin p, keeps to p: it leaves
\* the entry and the unit of every other plugin as they are, and a
\* container object or a status it comes to hold is that of p's unit.
KeepsTo(t, p) ==
    /\ \A q \in Registered \ {p} :
          plugins'[q] = plugins[q] /\ Unit(q)' = Unit(q)
    /\ (handle'[t] # handle[t] /\ handle'[t] # 0) => handle'[t] = Unit(p).id
    /\ seen'[t] \notin {seen[t], "none"} => seen'[t] = Live(p)

\* C28: two registry keys never have the same unit name; and in every
\* interleaving of the operations of two callers, no step of an operation
\* on one plugin looks up, stops, removes or creates the unit of another
\* or changes the entry of another.
C28_Isolation ==
    /\ [](\A p, q \in Registered : p # q => UnitOf(p) # UnitOf(q))
    /\ [][\A t \in Threads :
            (pc'[t] # pc[t] /\ arg'[t] \in Registered)
            => KeepsTo(t, arg'[t])]_vars

\* A load of one plugin and an unload of another that overlapped: the
\* unload found a unit and removed it, the load created its own, and each
\* plugin is recorded as its own operation left it.
C28_Witness ==
    \E t, u \in Threads :
        /\ Back(t, "load") /\ Back(u, "unload") /\ arg[t] # arg[u]
        /\ Overlap(t, u) /\ handle[u] # 0
        /\ ret[t].status = "loaded" /\ ret[u].status = "unloaded"
        /\ Unit(arg[t]).state = "running" /\ Unit(arg[u]).state = "absent"
        /\ plugins[arg[t]].status = "running"
        /\ plugins[arg[u]].status = "stopped"

====
